---- MODULE Spec2Model ----
(***************************************************************************)
(* A model of cv-helper: compose_images.py (background fitting, object     *)
(* scaling, placement, compositing, annotation, output files) and          *)
(* crop_objects.py (alpha-bounds cropping).                                *)
(*                                                                         *)
(* Python's float is IEEE-754 binary64.  The ratios the code computes      *)
(* (target_width / target_height, target_height / obj_height) are rounded  *)
(* to 53 significant bits, and int() truncates the rounded product or      *)
(* quotient, so the arithmetic is modelled bit-exactly on multi-limb       *)
(* naturals rather than as exact rational arithmetic.                      *)
(***************************************************************************)
EXTENDS Integers, Sequences, FiniteSets, TLC

(***************************************************************************)
(* Multi-limb naturals: a tuple of NLimbs limbs, limb 1 the least          *)
(* significant, base 2^15.  Every operation builds its result as a tuple.  *)
(***************************************************************************)
LimbBits == 15
Base == 2^15
NLimbs == 6

Min(a, b) == IF a < b THEN a ELSE b
Max(a, b) == IF a > b THEN a ELSE b

RECURSIVE BigConst(_, _)
BigConst(v, i) == IF i > NLimbs THEN <<>> ELSE <<v>> \o BigConst(0, i + 1)

BigZero == BigConst(0, 1)

\* 0 <= n < 2^30
BigFromInt(n) == <<n % Base, n \div Base>> \o BigConst(0, 3)

BigIsZero(x) == \A i \in 1..NLimbs : x[i] = 0

BigLess(x, y) ==
    \E i \in 1..NLimbs : x[i] < y[i] /\ \A j \in (i+1)..NLimbs : x[j] = y[j]

RECURSIVE AddFrom(_, _, _, _)
AddFrom(x, y, i, carry) ==
    IF i > NLimbs THEN <<>>
    ELSE <<(x[i] + y[i] + carry) % Base>>
         \o AddFrom(x, y, i + 1, (x[i] + y[i] + carry) \div Base)

BigAdd(x, y) == AddFrom(x, y, 1, 0)

RECURSIVE SubFrom(_, _, _, _)
SubFrom(x, y, i, borrow) ==
    IF i > NLimbs THEN <<>>
    ELSE <<(Base + x[i] - y[i] - borrow) % Base>>
         \o SubFrom(x, y, i + 1, IF x[i] - y[i] - borrow < 0 THEN 1 ELSE 0)

\* x - y for x >= y
BigSub(x, y) == SubFrom(x, y, 1, 0)

RECURSIVE MulFrom(_, _, _, _)
MulFrom(x, n, i, carry) ==
    IF i > NLimbs THEN <<>>
    ELSE <<(x[i] * n + carry) % Base>>
         \o MulFrom(x, n, i + 1, (x[i] * n + carry) \div Base)

\* x * n for 0 <= n < Base
BigMulSmall(x, n) == MulFrom(x, n, 1, 0)

RECURSIVE ShlLimbsFrom(_, _, _)
ShlLimbsFrom(x, k, i) ==
    IF i > NLimbs THEN <<>>
    ELSE <<IF i > k THEN x[i-k] ELSE 0>> \o ShlLimbsFrom(x, k, i + 1)

\* x * 2^k
BigShl(x, k) ==
    BigMulSmall(ShlLimbsFrom(x, k \div LimbBits, 1), 2^(k % LimbBits))

LimbAt(x, i) == IF i <= NLimbs THEN x[i] ELSE 0

RECURSIVE ShrFrom(_, _, _, _)
ShrFrom(x, k, r, i) ==
    IF i > NLimbs THEN <<>>
    ELSE <<(LimbAt(x, i + k) \div 2^r)
           + (LimbAt(x, i + k + 1) % 2^r) * 2^(LimbBits - r)>>
         \o ShrFrom(x, k, r, i + 1)

\* x \div 2^k
BigShr(x, k) == ShrFrom(x, k \div LimbBits, k % LimbBits, 1)

SmallBitLen(v) ==
    IF v = 0 THEN 0 ELSE CHOOSE k \in 1..LimbBits : 2^(k-1) <= v /\ v < 2^k

TopLimb(x) == CHOOSE i \in 1..NLimbs : x[i] # 0 /\ \A j \in (i+1)..NLimbs : x[j] = 0

BigBitLen(x) ==
    IF BigIsZero(x) THEN 0
    ELSE LimbBits * (TopLimb(x) - 1) + SmallBitLen(x[TopLimb(x)])

\* the value of x as an integer, for x < 2^30
BigToInt(x) == x[1] + Base * x[2]

(***************************************************************************)
(* binary64: a positive float is [m, e] with value m * 2^e and m of        *)
(* exactly MantissaBits bits; zero is [m |-> BigZero, e |-> 0].            *)
(***************************************************************************)
MantissaBits == 53

FloatZero == [m |-> BigZero, e |-> 0]

\* A number below 2^60 as the pair <<high, low>> of base 2^30 digits.
PairBase == 2^30

ToPair(x) == <<x[3] + Base * x[4], x[1] + Base * x[2]>>

FromPair(p) ==
    <<p[2] % Base, p[2] \div Base, p[1] % Base, p[1] \div Base>> \o BigConst(0, 5)

PairLess(x, y) == x[1] < y[1] \/ (x[1] = y[1] /\ x[2] < y[2])

\* x - y for x >= y
PairSub(x, y) ==
    IF x[2] >= y[2] THEN <<x[1] - y[1], x[2] - y[2]>>
    ELSE <<x[1] - y[1] - 1, (PairBase - y[2]) + x[2]>>

PairDouble(x) == <<2 * x[1] + (2 * x[2]) \div PairBase, (2 * x[2]) % PairBase>>

PairHalf(x) == <<x[1] \div 2, (x[1] % 2) * (PairBase \div 2) + x[2] \div 2>>

PairInc(x) ==
    IF x[2] + 1 = PairBase THEN <<x[1] + 1, 0>> ELSE <<x[1], x[2] + 1>>

\* <<q, r>>: the first nbits bits q of the quotient x / d (d <= x < 2d, so the
\* first bit is 1 and q has as many bits as steps were taken), r the remainder
RECURSIVE LongDiv(_, _, _, _)
LongDiv(x, d, nbits, q) ==
    IF q[1] >= 2^(nbits - 31) THEN <<q, x>>
    ELSE IF PairLess(x, d)
         THEN LongDiv(PairDouble(x), d, nbits, PairDouble(q))
         ELSE LongDiv(PairDouble(PairSub(x, d)), d, nbits,
                      PairInc(PairDouble(q)))

\* the mantissa m1 (MantissaBits or one more bits) with exponent e, normalised
Normalise(m1, e) ==
    IF BigBitLen(m1) > MantissaBits
    THEN [m |-> BigShr(m1, 1), e |-> e + 1]
    ELSE [m |-> m1, e |-> e]

\* round to nearest, ties to even: m0 the kept bits, rb the first dropped bit,
\* sticky whether any later bit is set
RoundNearestEven(m0, rb, sticky, e) ==
    IF rb = 1 /\ (sticky \/ m0[1] % 2 = 1)
    THEN Normalise(BigAdd(m0, BigFromInt(1)), e)
    ELSE Normalise(m0, e)

RoundDivided(qr, t) ==
    RoundNearestEven(FromPair(PairHalf(qr[1])), qr[1][2] % 2,
                     qr[2] # <<0, 0>>, t - (MantissaBits - 1))

\* (a / b) * 2^t for a, b of exactly MantissaBits bits, as pairs
RoundAligned(a, b, t) ==
    IF PairLess(a, b)
    THEN RoundDivided(LongDiv(PairDouble(a), b, MantissaBits + 1, <<0, 0>>), t - 1)
    ELSE RoundDivided(LongDiv(a, b, MantissaBits + 1, <<0, 0>>), t)

\* n / d (n, d > 0, below 2^MantissaBits) rounded to nearest, ties to even
RoundRat(n, d) ==
    RoundAligned(ToPair(BigShl(n, MantissaBits - BigBitLen(n))),
                 ToPair(BigShl(d, MantissaBits - BigBitLen(d))),
                 BigBitLen(n) - BigBitLen(d))

RoundDropped(n, k, e) ==
    RoundNearestEven(BigShr(n, k), BigShr(n, k - 1)[1] % 2,
                     BigShl(BigShr(n, k - 1), k - 1) # n, e + k)

\* n * 2^e (n > 0) rounded to nearest, ties to even
RoundBig(n, e) ==
    IF BigBitLen(n) <= MantissaBits
    THEN [m |-> BigShl(n, MantissaBits - BigBitLen(n)),
          e |-> e - (MantissaBits - BigBitLen(n))]
    ELSE RoundDropped(n, BigBitLen(n) - MantissaBits, e)

AddExponent(x, k) == [m |-> x.m, e |-> x.e + k]

\* a / b on two positive ints
FloatDivInts(a, b) == RoundRat(BigFromInt(a), BigFromInt(b))

\* n * x, int n (0 <= n < Base) times float x
FloatIntTimes(n, x) ==
    IF n = 0 \/ BigIsZero(x.m) THEN FloatZero
    ELSE RoundBig(BigMulSmall(x.m, n), x.e)

\* n / x, int n over positive float x
FloatIntOver(n, x) ==
    IF n = 0 THEN FloatZero
    ELSE AddExponent(RoundRat(BigFromInt(n), x.m), -(x.e))

AbsDiffAligned(bx, by, emin) ==
    IF bx = by THEN FloatZero
    ELSE IF BigLess(bx, by) THEN RoundBig(BigSub(by, bx), emin)
    ELSE RoundBig(BigSub(bx, by), emin)

\* abs(x - y) on positive floats
FloatAbsDiff(x, y) ==
    AbsDiffAligned(BigShl(x.m, x.e - Min(x.e, y.e)),
                   BigShl(y.m, y.e - Min(x.e, y.e)), Min(x.e, y.e))

\* x < y on non-negative floats
FloatLess(x, y) ==
    IF BigIsZero(y.m) THEN FALSE
    ELSE IF BigIsZero(x.m) THEN TRUE
    ELSE x.e < y.e \/ (x.e = y.e /\ BigLess(x.m, y.m))

\* int(x) for a non-negative float x < 2^30
FloatToInt(x) ==
    IF x.e >= 0 THEN BigToInt(BigShl(x.m, x.e)) ELSE BigToInt(BigShr(x.m, -(x.e)))

(***************************************************************************)
(* Bounds of the model.                                                    *)
(***************************************************************************)
MaxImageDim == 9        \* background width and height, fitting
MaxTargetDim == 9       \* target width and height, fitting
MaxObjectDim == 15      \* object width and height, scaling
MaxTargetHeight == 15   \* target object height, scaling
MaxAlphaWidth == 3      \* width of an object cutout, cropping
MaxAlphaHeight == 2     \* height of an object cutout, cropping
MaxPadding == 1         \* crop_padding
MaxCanvas == 3           \* canvas width and height, placement
MaxObject == 3           \* resized object width and height, placement
MaxBackgrounds == 1      \* background files of a run
MaxDuplicates == 2      \* background_duplicate_count
MaxDraw == 1            \* largest number drawn for a file name

(***************************************************************************)
(* PIL.Image as the code uses it.  An image of the compositing script is   *)
(* [width, height, mode, layers]: layers lists what was pasted onto it.    *)
(***************************************************************************)
Ok(image) == [raised |-> "", image |-> image]
NoImage == [width |-> 0, height |-> 0, mode |-> "", layers |-> <<>>]
Raised(what) == [raised |-> what, image |-> NoImage]

\* Image.resize((width, height)): a new image of that size; a size below 1
\* raises ValueError("height and width must be > 0")
ImageResize(image, width, height) ==
    IF width < 1 \/ height < 1 THEN Raised("ValueError")
    ELSE Ok([image EXCEPT !.width = width, !.height = height])

\* Image.crop((left, top, right, bottom)): a new image of the box's size
ImageCrop(image, box) ==
    [image EXCEPT !.width = box[3] - box[1], !.height = box[4] - box[2]]

\* the literal 0.001
Tolerance == FloatDivInts(1, 1000)

FitResult(box, resized) == [crop_box |-> box, raised |-> resized.raised, image |-> resized.image]

CropWidth(image, target_width, target_height, new_width, left) ==
    FitResult(<<left, 0, left + new_width, image.height>>,
              ImageResize(ImageCrop(image, <<left, 0, left + new_width, image.height>>),
                          target_width, target_height))

CropHeight(image, target_width, target_height, new_height, top) ==
    FitResult(<<0, top, image.width, top + new_height>>,
              ImageResize(ImageCrop(image, <<0, top, image.width, top + new_height>>),
                          target_width, target_height))

\* new_width = int(img_height * target_ratio); left = (img_width - new_width) // 2
NewWidth(image, target_ratio) == FloatToInt(FloatIntTimes(image.height, target_ratio))

\* new_height = int(img_width / target_ratio); top = (img_height - new_height) // 2
NewHeight(image, target_ratio) == FloatToInt(FloatIntOver(image.width, target_ratio))

CropWider(image, target_width, target_height, new_width) ==
    CropWidth(image, target_width, target_height, new_width,
              (image.width - new_width) \div 2)

CropTaller(image, target_width, target_height, new_height) ==
    CropHeight(image, target_width, target_height, new_height,
               (image.height - new_height) \div 2)

FitWithRatios(image, target_width, target_height, target_ratio, img_ratio) ==
    IF FloatLess(FloatAbsDiff(img_ratio, target_ratio), Tolerance)
    THEN FitResult(<<>>, ImageResize(image, target_width, target_height))
    ELSE IF FloatLess(target_ratio, img_ratio)
         THEN CropWider(image, target_width, target_height, NewWidth(image, target_ratio))
         ELSE CropTaller(image, target_width, target_height, NewHeight(image, target_ratio))

\* [crop_box, raised, image]: crop_box is <<>> when the image is only resized
crop_and_resize_to_target(image, target_width, target_height) ==
    FitWithRatios(image, target_width, target_height,
                  FloatDivInts(target_width, target_height),
                  FloatDivInts(image.width, image.height))

ScaleWithRatio(obj_image, target_height, ratio) ==
    ImageResize(obj_image, FloatToInt(FloatIntTimes(obj_image.width, ratio)), target_height)

resize_object_with_height(obj_image, target_height) ==
    ScaleWithRatio(obj_image, target_height, FloatDivInts(target_height, obj_image.height))

(***************************************************************************)
(* Placement (calculate_valid_position).  random.randint(a, b) draws any   *)
(* integer of a..b, so the function is modelled by the set of centers it   *)
(* can return.                                                             *)
(***************************************************************************)
valid_x_min(obj_width, config) == Max(config.object_x_min, obj_width \div 2)


\* as valid_x_max, the object's half width forgotten
valid_x_max_unclamped(obj_width, config) ==
    Min(config.object_x_max, config.output_width)

valid_x_max(obj_width, config) ==
    Min(config.object_x_max, config.output_width - obj_width \div 2)

valid_y_min(obj_height) == obj_height \div 2

valid_y_max(obj_height, config) ==
    Min(config.object_y_max, config.output_height - obj_height \div 2)


\* as FallbackPosition, the canvas centre instead of the configured range's
FallbackCanvasCentre(config) ==
    <<config.output_width \div 2, config.output_height \div 2>>

FallbackPosition(config) ==
    <<(config.object_x_min + config.object_x_max) \div 2, config.object_y_max \div 2>>

calculate_valid_position(obj_width, obj_height, config) ==
    IF \/ valid_x_min(obj_width, config) > valid_x_max(obj_width, config)
       \/ valid_y_min(obj_height) > valid_y_max(obj_height, config)
    THEN {FallbackPosition(config)}
    ELSE (valid_x_min(obj_width, config)..valid_x_max(obj_width, config))
         \X (valid_y_min(obj_height)..valid_y_max(obj_height, config))

(***************************************************************************)
(* Compositing.  Images are objects: heap maps a reference to the image    *)
(* it holds, and paste changes the image it is called on.                  *)
(***************************************************************************)
Refs == {"background", "copy", "converted", "pasted", "result"}


\* as ImageCopy, the image itself returned instead of a copy
ImageAlias(heap, ref, fresh) == <<heap, ref>>

\* image.copy() into the fresh object `fresh`: <<heap, reference to the copy>>
ImageCopy(heap, ref, fresh) == <<[heap EXCEPT ![fresh] = heap[ref]], fresh>>

\* image.convert(mode) into the fresh object `fresh`
ImageConvert(heap, ref, mode, fresh) ==
    <<[heap EXCEPT ![fresh] = [heap[ref] EXCEPT !.mode = mode]], fresh>>

\* image.paste(obj_image, (left, top), obj_image): in place
ImagePaste(heap, ref, obj_image, left, top) ==
    [heap EXCEPT ![ref].layers =
        Append(@, [left |-> left, top |-> top,
                   width |-> obj_image.width, height |-> obj_image.height])]

\* background.mode != "RGBA": background = background.convert("RGBA")
EnsureRGBA(heap, ref) ==
    IF heap[ref].mode # "RGBA" THEN ImageConvert(heap, ref, "RGBA", "converted")
    ELSE <<heap, ref>>

PasteOnCopy(copied, obj_image, left, top) ==
    ImageConvert(ImagePaste(copied[1], copied[2], obj_image, left, top),
                 copied[2], "RGB", "result")

CompositeOnto(rgba, obj_image, left, top) ==
    PasteOnCopy(ImageCopy(rgba[1], rgba[2], "pasted"), obj_image, left, top)

\* <<heap, reference to the returned image>>
composite_images(heap, background, obj_image, center_x, center_y) ==
    CompositeOnto(EnsureRGBA(heap, background), obj_image,
                  center_x - obj_image.width \div 2,
                  center_y - obj_image.height \div 2)


\* as BoundingBox, the half sizes rounded up instead of down
BoundingBoxRoundedUp(obj_resized, center_x, center_y) ==
    <<center_x - (obj_resized.width + 1) \div 2,
      center_y - (obj_resized.height + 1) \div 2,
      center_x - (obj_resized.width + 1) \div 2 + obj_resized.width,
      center_y - (obj_resized.height + 1) \div 2 + obj_resized.height>>

\* main, lines 278-282: (bbox_left, bbox_top, bbox_right, bbox_bottom)
BoundingBox(obj_resized, center_x, center_y) ==
    <<center_x - obj_resized.width \div 2,
      center_y - obj_resized.height \div 2,
      center_x - obj_resized.width \div 2 + obj_resized.width,
      center_y - obj_resized.height \div 2 + obj_resized.height>>

(***************************************************************************)
(* Output files.                                                           *)
(***************************************************************************)
Digits == 8

RECURSIVE ZeroPadded(_, _)
\* f"{n:0{digits}d}" as the sequence of its decimal digits, for n < 10^digits
ZeroPadded(n, digits) ==
    IF digits = 0 THEN <<>> ELSE ZeroPadded(n \div 10, digits - 1) \o <<n % 10>>

\* the names generate_random_filename(prefix, digits) can return, among the
\* draws 0..max_draw of random.randint(0, 10 ** digits - 1)
generate_random_filename(prefix, digits, max_draw) ==
    {<<prefix>> \o ZeroPadded(n, digits) : n \in 0..Min(10^digits - 1, max_draw)}

create_labelme_json(image, image_filename, bbox) ==
    [points |-> <<<<bbox[1], bbox[2]>>, <<bbox[3], bbox[4]>>>>,
     imagePath |-> image_filename,
     imageHeight |-> image.height, imageWidth |-> image.width]

(***************************************************************************)
(* crop_objects.py.  An object cutout is [width, height, mode, opaque]:    *)
(* opaque is the set of pixels <<x, y>> whose alpha is above 0.            *)
(***************************************************************************)
Pixels(width, height) == (0..(width - 1)) \X (0..(height - 1))

\* image.convert("RGBA"): an image without alpha becomes fully opaque
ConvertRGBA(image) ==
    IF image.mode = "RGBA" THEN image
    ELSE [image EXCEPT !.mode = "RGBA", !.opaque = Pixels(image.width, image.height)]

SetMin(S) == CHOOSE v \in S : \A u \in S : v <= u
SetMax(S) == CHOOSE v \in S : \A u \in S : v >= u


\* as Getbbox, right and lower on the last non-zero pixel instead of past it
GetbboxInclusive(image) ==
    IF image.opaque = {} THEN <<>>
    ELSE <<SetMin({p[1] : p \in image.opaque}), SetMin({p[2] : p \in image.opaque}),
           SetMax({p[1] : p \in image.opaque}), SetMax({p[2] : p \in image.opaque})>>

\* alpha.getbbox(): <<>> for None, else (left, upper, right, lower), right
\* and lower just outside the non-zero region
Getbbox(image) ==
    IF image.opaque = {} THEN <<>>
    ELSE <<SetMin({p[1] : p \in image.opaque}), SetMin({p[2] : p \in image.opaque}),
           SetMax({p[1] : p \in image.opaque}) + 1, SetMax({p[2] : p \in image.opaque}) + 1>>

\* image.crop(box) on a cutout
AlphaCrop(image, box) ==
    [width |-> box[3] - box[1], height |-> box[4] - box[2], mode |-> image.mode,
     opaque |-> {<<p[1] - box[1], p[2] - box[2]>> :
                   p \in {q \in image.opaque : /\ box[1] <= q[1] /\ q[1] < box[3]
                                               /\ box[2] <= q[2] /\ q[2] < box[4]}}]

PadBox(image, bbox, padding) ==
    IF padding > 0
    THEN <<Max(0, bbox[1] - padding), Max(0, bbox[2] - padding),
           Min(image.width, bbox[3] + padding), Min(image.height, bbox[4] + padding)>>
    ELSE bbox

CropToBox(image, bbox, padding) ==
    IF bbox = <<>> THEN image ELSE AlphaCrop(image, PadBox(image, bbox, padding))

crop_to_content(image, padding) ==
    CropToBox(ConvertRGBA(image), Getbbox(ConvertRGBA(image)), padding)

VARIABLES
    pc,                 \* where the modelled run is
    fit_in, fit_out,    \* crop_and_resize_to_target: arguments, result
    scale_in, scale_out,\* resize_object_with_height: arguments, result
    crop_in, crop_out,  \* crop_to_content: arguments, results of each pass
    config,             \* the loaded configuration
    background_files, object_files,
    bg_index,           \* position of the loop over background_files
    selected_objects,   \* random.choices(object_files, k=duplicate_count)
    obj_index,          \* position of the loop over selected_objects
    heap,               \* the images main and composite_images hold
    obj_resized, center, bbox,
    images_dir, json_dir,   \* file name -> what the file holds
    total_generated

fitVars == <<fit_in, fit_out>>
scaleVars == <<scale_in, scale_out>>
cropVars == <<crop_in, crop_out>>
inputVars == <<config, background_files, object_files>>
loopVars == <<bg_index, selected_objects, obj_index>>
objectVars == <<obj_resized, center, bbox>>
outputVars == <<images_dir, json_dir, total_generated>>
mainVars == <<inputVars, loopVars, heap, objectVars, outputVars>>

vars == <<pc, fitVars, scaleVars, cropVars, mainVars>>

None == [none |-> TRUE]

Background(width, height, mode) ==
    [width |-> width, height |-> height, mode |-> mode, layers |-> <<>>]

EmptyHeap == [r \in Refs |-> NoImage]

IdleFit == fit_in = None /\ fit_out = None
IdleScale == scale_in = None /\ scale_out = None
IdleCrop == crop_in = None /\ crop_out = <<>>
IdleMain ==
    /\ config = None /\ background_files = <<>> /\ object_files = <<>>
    /\ bg_index = 0 /\ selected_objects = <<>> /\ obj_index = 0
    /\ heap = EmptyHeap
    /\ obj_resized = None /\ center = None /\ bbox = None
    /\ images_dir = <<>> /\ json_dir = <<>> /\ total_generated = 0

(***************************************************************************)
(* Fitting one background: line 254 of main on any image and target.       *)
(***************************************************************************)
FitInputs ==
    {[image |-> Background(w, h, "RGB"), target_width |-> tw, target_height |-> th] :
        w \in 1..MaxImageDim, h \in 1..MaxImageDim,
        tw \in 1..MaxTargetDim, th \in 1..MaxTargetDim}
    \cup {[image |-> Background(1000, 1000, "RGB"), target_width |-> 1280, target_height |-> 720],
          [image |-> Background(1920, 1080, "RGB"), target_width |-> 1280, target_height |-> 720]}

FitInit ==
    /\ pc = "fit" /\ fit_in \in FitInputs /\ fit_out = None
    /\ IdleScale /\ IdleCrop /\ IdleMain

FitBackground ==
    /\ pc = "fit"
    /\ fit_out' = crop_and_resize_to_target(fit_in.image, fit_in.target_width, fit_in.target_height)
    /\ pc' = "fitted"
    /\ UNCHANGED <<fit_in, scaleVars, cropVars, mainVars>>

FitNext == FitBackground

SpecFit == FitInit /\ [][FitNext]_vars

(***************************************************************************)
(* Scaling one object: line 267 of main on any object and target height.   *)
(***************************************************************************)
ScaleInputs ==
    {[image |-> Background(w, h, "RGBA"), target_height |-> th] :
        w \in 1..MaxObjectDim, h \in 1..MaxObjectDim, th \in 1..MaxTargetHeight}
    \cup {[image |-> Background(200, 100, "RGBA"), target_height |-> 50]}

ScaleInit ==
    /\ pc = "scale" /\ scale_in \in ScaleInputs /\ scale_out = None
    /\ IdleFit /\ IdleCrop /\ IdleMain

ScaleObject ==
    /\ pc = "scale"
    /\ scale_out' = resize_object_with_height(scale_in.image, scale_in.target_height)
    /\ pc' = "scaled"
    /\ UNCHANGED <<scale_in, fitVars, cropVars, mainVars>>

ScaleNext == ScaleObject

SpecScale == ScaleInit /\ [][ScaleNext]_vars

(***************************************************************************)
(* Cropping one cutout, and cropping the result again (crop_objects.py     *)
(* run over its own output).                                               *)
(***************************************************************************)
Cutouts ==
    UNION {{[width |-> w, height |-> h, mode |-> "RGBA", opaque |-> o] :
              o \in SUBSET Pixels(w, h)}
           \cup {[width |-> w, height |-> h, mode |-> "RGB", opaque |-> {}]} :
           <<w, h>> \in (1..MaxAlphaWidth) \X (1..MaxAlphaHeight)}

CropInit ==
    /\ pc = "crop"
    /\ crop_in \in {[image |-> c, padding |-> p] : c \in Cutouts, p \in 0..MaxPadding}
    /\ crop_out = <<>>
    /\ IdleFit /\ IdleScale /\ IdleMain

CropObject ==
    /\ pc = "crop"
    /\ crop_out' = <<crop_to_content(crop_in.image, crop_in.padding)>>
    /\ pc' = "cropped"
    /\ UNCHANGED <<crop_in, fitVars, scaleVars, mainVars>>

CropAgain ==
    /\ pc = "cropped"
    /\ crop_out' = Append(crop_out, crop_to_content(crop_out[1], crop_in.padding))
    /\ pc' = "recropped"
    /\ UNCHANGED <<crop_in, fitVars, scaleVars, mainVars>>

CropNext == CropObject \/ CropAgain

SpecCrop == CropInit /\ [][CropNext]_vars

(***************************************************************************)
(* main of compose_images.py, one step per stage of the loop body.         *)
(***************************************************************************)
Config(w, h, x_min, x_max, y_max, min_h, max_h, k) ==
    [output_width |-> w, output_height |-> h,
     object_x_min |-> x_min, object_x_max |-> x_max, object_y_max |-> y_max,
     min_object_height |-> min_h, max_object_height |-> max_h,
     background_duplicate_count |-> k]

\* lines 270-272
Place ==
    /\ pc = "place"
    /\ center' \in calculate_valid_position(obj_resized.width, obj_resized.height, config)
    /\ pc' = "composite"
    /\ UNCHANGED <<fitVars, scaleVars, cropVars, inputVars, loopVars, heap,
                   obj_resized, bbox, outputVars>>

CompositeCopy(copied) ==
    composite_images(copied[1], copied[2], obj_resized, center[1], center[2])[1]

\* line 275: result = composite_images(background.copy(), obj_resized, ...)
Composite ==
    /\ pc = "composite"
    /\ heap' = CompositeCopy(ImageCopy(heap, "background", "copy"))
    /\ pc' = "bbox"
    /\ UNCHANGED <<fitVars, scaleVars, cropVars, inputVars, loopVars,
                   objectVars, outputVars>>

\* lines 278-282
ComputeBBox ==
    /\ pc = "bbox"
    /\ bbox' = BoundingBox(obj_resized, center[1], center[2])
    /\ pc' = "save"
    /\ UNCHANGED <<fitVars, scaleVars, cropVars, inputVars, loopVars, heap,
                   obj_resized, center, outputVars>>

(***************************************************************************)
(* Placing, compositing and annotating one resized object of any size      *)
(* under any configuration: lines 270-282.                                 *)
(***************************************************************************)
PlaceConfigs ==
    {Config(w, h, x_min, x_max, y_max, 1, 1, 1) :
        w \in 1..MaxCanvas, h \in 1..MaxCanvas,
        x_min \in 0..MaxCanvas, x_max \in 0..MaxCanvas, y_max \in 0..MaxCanvas}

\* the placement bounds and canvas of the docstring, lines 78-80
DocumentedConfig == Config(1280, 720, 320, 960, 360, 1, 1, 1)

PlaceInit ==
    /\ pc = "place"
    /\ \/ /\ config \in PlaceConfigs
          /\ obj_resized \in {Background(w, h, "RGBA") :
                                w \in 1..MaxObject, h \in 1..MaxObject}
       \/ /\ config = DocumentedConfig
          /\ obj_resized = Background(800, 800, "RGBA")
    /\ heap = [EmptyHeap EXCEPT !["background"] =
                  Background(config.output_width, config.output_height, "RGB")]
    /\ background_files = <<>> /\ object_files = <<>>
    /\ bg_index = 0 /\ selected_objects = <<>> /\ obj_index = 0
    /\ center = None /\ bbox = None
    /\ images_dir = <<>> /\ json_dir = <<>> /\ total_generated = 0
    /\ IdleFit /\ IdleScale /\ IdleCrop

PlaceNext == Place \/ Composite \/ ComputeBBox

SpecPlace == PlaceInit /\ [][PlaceNext]_vars

(***************************************************************************)
(* A whole run of main.                                                    *)
(***************************************************************************)
RunConfigs ==
    {Config(2, 2, 1, 1, 1, 1, 2, k) : k \in 0..MaxDuplicates}

BackgroundPool == {Background(2, 2, "RGBA"), Background(3, 2, "RGB")}

ObjectPool == <<Background(2, 2, "RGBA"), Background(1, 4, "RGBA")>>

SeqsUpTo(S, n) == UNION {[1..len -> S] : len \in 0..n}

Init ==
    /\ pc = "start"
    /\ config \in RunConfigs
    /\ background_files \in SeqsUpTo(BackgroundPool, MaxBackgrounds)
    /\ object_files \in {<<>>, ObjectPool}
    /\ bg_index = 0 /\ selected_objects = <<>> /\ obj_index = 0
    /\ heap = EmptyHeap
    /\ obj_resized = None /\ center = None /\ bbox = None
    /\ images_dir = <<>> /\ json_dir = <<>> /\ total_generated = 0
    /\ IdleFit /\ IdleScale /\ IdleCrop

\* lines 208-223: no background or no object images: report and return
Start ==
    /\ pc = "start"
    /\ pc' = IF background_files = <<>> \/ object_files = <<>> THEN "returned"
             ELSE "background"
    /\ bg_index' = 1
    /\ UNCHANGED <<fitVars, scaleVars, cropVars, inputVars, selected_objects,
                   obj_index, heap, objectVars, outputVars>>

\* lines 248-257: prepare the next background and choose its objects
NextBackground ==
    /\ pc = "background"
    /\ bg_index <= Len(background_files)
    /\ heap' = [heap EXCEPT !["background"] =
                   crop_and_resize_to_target(background_files[bg_index],
                       config.output_width, config.output_height).image]
    /\ selected_objects' \in
           [1..config.background_duplicate_count -> 1..Len(object_files)]
    /\ obj_index' = 1
    /\ pc' = "object"
    /\ UNCHANGED <<fitVars, scaleVars, cropVars, inputVars, bg_index,
                   objectVars, outputVars>>

\* lines 319-322: the loop over the backgrounds is over
Finish ==
    /\ pc = "background"
    /\ bg_index > Len(background_files)
    /\ pc' = "done"
    /\ UNCHANGED <<fitVars, scaleVars, cropVars, mainVars>>

Resized(resized) ==
    IF resized.raised # ""
    THEN pc' = "raised" /\ UNCHANGED obj_resized
    ELSE pc' = "place" /\ obj_resized' = resized.image

\* lines 259-267: load the next object and resize it to a random height
NextObject ==
    /\ pc = "object"
    /\ obj_index <= Len(selected_objects)
    /\ \E target_obj_height \in config.min_object_height..config.max_object_height :
          Resized(resize_object_with_height(
                      object_files[selected_objects[obj_index]], target_obj_height))
    /\ UNCHANGED <<fitVars, scaleVars, cropVars, inputVars, loopVars, heap,
                   center, bbox, outputVars>>

\* the loop over the selected objects is over
ObjectsDone ==
    /\ pc = "object"
    /\ obj_index > Len(selected_objects)
    /\ bg_index' = bg_index + 1
    /\ pc' = "background"
    /\ UNCHANGED <<fitVars, scaleVars, cropVars, inputVars, selected_objects,
                   obj_index, heap, objectVars, outputVars>>

SaveAs(output_name) ==
    /\ images_dir' = (output_name :> (total_generated + 1)) @@ images_dir
    /\ json_dir' = (output_name :>
                       [composite |-> total_generated + 1,
                        data |-> create_labelme_json(heap["result"], output_name, bbox)])
                   @@ json_dir

\* lines 285-317: name, save the image, save the annotation, count
Save ==
    /\ pc = "save"
    /\ \E output_name \in generate_random_filename("gen", Digits, MaxDraw) :
          SaveAs(output_name)
    /\ total_generated' = total_generated + 1
    /\ obj_index' = obj_index + 1
    /\ pc' = "object"
    /\ UNCHANGED <<fitVars, scaleVars, cropVars, inputVars, bg_index,
                   selected_objects, heap, objectVars>>

Next ==
    \/ Start \/ NextBackground \/ Finish \/ NextObject \/ ObjectsDone
    \/ Place \/ Composite \/ ComputeBBox \/ Save

Spec == Init /\ [][Next]_vars

(***************************************************************************)
(* The claims.                                                             *)
(***************************************************************************)
Placed == pc \in {"composite", "bbox", "save"}

Abs(n) == IF n < 0 THEN -n ELSE n

\* C1: whenever both derived ranges are non-inverted, every center
\* calculate_valid_position can return keeps the object's half extents on the
\* canvas: center_x - objW//2 >= 0, center_x + objW//2 <= output_width,
\* center_y - objH//2 >= 0, center_y + objH//2 <= output_height.
C1_NonInverted ==
    /\ Max(config.object_x_min, obj_resized.width \div 2)
          <= Min(config.object_x_max, config.output_width - obj_resized.width \div 2)
    /\ obj_resized.height \div 2
          <= Min(config.object_y_max, config.output_height - obj_resized.height \div 2)

C1_CenterKeepsObjectOnCanvas ==
    (Placed /\ C1_NonInverted) =>
        /\ center[1] - obj_resized.width \div 2 >= 0
        /\ center[1] + obj_resized.width \div 2 <= config.output_width
        /\ center[2] - obj_resized.height \div 2 >= 0
        /\ center[2] + obj_resized.height \div 2 <= config.output_height

\* an object placed at the right and top edges of its valid range
C1_PlacedAtEdge ==
    /\ Placed /\ C1_NonInverted
    /\ config.object_x_min < config.object_x_max
    /\ center[1] + obj_resized.width \div 2 = config.output_width
    /\ center[2] - obj_resized.height \div 2 = 0

\* C2: every bounding box main computes for an annotation has left <= right,
\* top <= bottom and lies within the composite image, for every object size
\* and every position calculate_valid_position returns.
C2_BBoxWithinImage ==
    pc = "save" =>
        /\ bbox[1] <= bbox[3] /\ bbox[2] <= bbox[4]
        /\ 0 <= bbox[1] /\ bbox[3] <= config.output_width
        /\ 0 <= bbox[2] /\ bbox[4] <= config.output_height

C3_Pasted == heap["result"].layers[Len(heap["result"].layers)]

\* C3: the annotated bounding box is exactly the rectangle composite_images
\* pasted the object at: origin (center_x - objW//2, center_y - objH//2),
\* size (objW, objH).
C3_BBoxIsPasteRectangle ==
    pc = "save" =>
        /\ C3_Pasted.left = center[1] - obj_resized.width \div 2
        /\ C3_Pasted.top = center[2] - obj_resized.height \div 2
        /\ bbox = <<C3_Pasted.left, C3_Pasted.top,
                    C3_Pasted.left + C3_Pasted.width, C3_Pasted.top + C3_Pasted.height>>
        /\ C3_Pasted.width = obj_resized.width
        /\ C3_Pasted.height = obj_resized.height

\* an object of odd width and height, annotated
C3_OddObjectAnnotated ==
    /\ pc = "save"
    /\ obj_resized.width % 2 = 1 /\ obj_resized.height % 2 = 1
    /\ obj_resized.width > 1

\* C4: after a run over B backgrounds with duplicate count k, each of the B*k
\* composites has its own image file and its own annotation file under the
\* same name; no composite's files are replaced by another's.
C4_OneFilePairPerComposite ==
    pc = "done" =>
        /\ total_generated = Len(background_files) * config.background_duplicate_count
        /\ \A c \in 1..total_generated :
              \E name \in DOMAIN images_dir :
                 /\ images_dir[name] = c
                 /\ name \in DOMAIN json_dir
                 /\ json_dir[name].composite = c

\* C5: crop_and_resize_to_target returns an image of exactly the target size
\* and its intermediate center-crop rectangle is never empty.
C5_ExactSizeNonEmptyCrop ==
    pc = "fitted" =>
        /\ fit_out.raised = ""
        /\ fit_out.image.width = fit_in.target_width
        /\ fit_out.image.height = fit_in.target_height
        /\ fit_out.crop_box # <<>> =>
              /\ fit_out.crop_box[1] < fit_out.crop_box[3]
              /\ fit_out.crop_box[2] < fit_out.crop_box[4]

C6_HasContent == ConvertRGBA(crop_in.image).opaque # {}

\* C6: for an image with at least one pixel of alpha > 0, the crop at padding 0
\* has its whole extent as its tight alpha box, and cropping it again at
\* padding 0 gives an image of the same size.
C6_CropIdempotent ==
    (pc = "recropped" /\ crop_in.padding = 0 /\ C6_HasContent) =>
        /\ Getbbox(crop_out[1]) = <<0, 0, crop_out[1].width, crop_out[1].height>>
        /\ crop_out[2].width = crop_out[1].width
        /\ crop_out[2].height = crop_out[1].height

\* a cutout with transparent margins, cropped smaller and cropped again
C6_MarginsCropped ==
    /\ pc = "recropped" /\ crop_in.padding = 0 /\ C6_HasContent
    /\ crop_out[1].width < crop_in.image.width
    /\ crop_out[1].height < crop_in.image.height

\* C7: resize_object_with_height always returns an image of height
\* target_height and of width floor(width * target_height / height).
C7_ScaledWidthRoundedDown ==
    pc = "scaled" =>
        /\ scale_out.raised = ""
        /\ scale_out.image.height = scale_in.target_height
        /\ scale_out.image.width =
              (scale_in.image.width * scale_in.target_height) \div scale_in.image.height

C8_Inverted ==
    \/ Max(config.object_x_min, obj_resized.width \div 2)
          > Min(config.object_x_max, config.output_width - obj_resized.width \div 2)
    \/ obj_resized.height \div 2
          > Min(config.object_y_max, config.output_height - obj_resized.height \div 2)

\* C8: whenever either derived range is inverted, calculate_valid_position
\* returns center_x = (x_min + x_max)//2, center_y = y_max//2, whatever the
\* random source and the object size.
C8_FallbackPlacement ==
    (Placed /\ C8_Inverted) =>
        center = <<(config.object_x_min + config.object_x_max) \div 2,
                   config.object_y_max \div 2>>

\* object 800x800, x in [320, 960], y_max = 360, canvas 1280x720: (640, 180)
C8_DocumentedFallback ==
    /\ Placed /\ C8_Inverted
    /\ config = DocumentedConfig
    /\ obj_resized.width = 800 /\ obj_resized.height = 800
    /\ center = <<640, 180>>

C9_Image == fit_in.image

\* the ratios differ by at least 0.001
C9_RatiosDiffer ==
    1000 * Abs(C9_Image.width * fit_in.target_height
               - fit_in.target_width * C9_Image.height)
       >= C9_Image.height * fit_in.target_height

C9_Wider ==
    C9_Image.width * fit_in.target_height > fit_in.target_width * C9_Image.height

C9_NewWidth == (C9_Image.height * fit_in.target_width) \div fit_in.target_height
C9_NewHeight == (C9_Image.width * fit_in.target_height) \div fit_in.target_width
C9_Left == (C9_Image.width - C9_NewWidth) \div 2
C9_Top == (C9_Image.height - C9_NewHeight) \div 2

\* C9: when the ratios differ by at least the tolerance, the crop is centered
\* and inside the image: a wider image keeps its height and the width
\* floor(img_height * target_width / target_height) from
\* left = (img_width - new_width)//2, a taller one keeps its width and the
\* height floor(img_width * target_height / target_width) from
\* top = (img_height - new_height)//2.
C9_CenteredCropOfExactRatio ==
    (pc = "fitted" /\ C9_RatiosDiffer) =>
        fit_out.crop_box =
            IF C9_Wider
            THEN <<C9_Left, 0, C9_Left + C9_NewWidth, C9_Image.height>>
            ELSE <<0, C9_Top, C9_Image.width, C9_Top + C9_NewHeight>>

\* C10: compositing never changes the prepared background: the image passed
\* to composite_images is as it was, the prepared background has nothing
\* pasted on it, and the composite holds exactly the one object pasted in
\* this iteration.
C10_BackgroundUnmodified ==
    pc \in {"bbox", "save"} =>
        /\ heap["background"].layers = <<>>
        /\ heap["copy"] = heap["background"]
        /\ Len(heap["result"].layers) = 1

\* the second composite built on a background that already is RGBA
C10_SecondComposite ==
    /\ pc = "save"
    /\ obj_index = 2
    /\ heap["background"].mode = "RGBA"
    /\ Len(heap["result"].layers) = 1

====
